---- MODULE Spec2Model ----
(***************************************************************************)
(* Job lifecycle orchestration of the Animate 3D SDK: the initiating       *)
(* operations of Animate3DClient / AsyncAnimate3DClient, the poll loop     *)
(* _poll_job, get_job_status / JobStatus.from_dict and the error code      *)
(* resolver of error_codes.py.                                             *)
(***************************************************************************)
EXTENDS Integers, Sequences, FiniteSets, TLC

VARIABLES call, callPc, callErr, rid, retval, submissions,
          pollPc, pollUnit, pollRid, pollErr, start_time,
          now, cycleWork, job_status, fetches, history, events,
          reply, deferred, client_state, parked,
          resolution, heap, params, duplicate, assigned, last_op

vars == <<call, callPc, callErr, rid, retval, submissions,
          pollPc, pollUnit, pollRid, pollErr, start_time,
          now, cycleWork, job_status, fetches, history, events,
          reply, deferred, client_state, parked,
          resolution, heap, params, duplicate, assigned, last_op>>

\* the state of the library's pure parts: the last use of the error resolver,
\* and the ProcessParams objects of the caller with the lists they refer to
libVars == <<resolution, heap, params, duplicate, assigned, last_op>>

callVars == <<callPc, callErr, rid, retval, submissions>>
pollVars == <<pollPc, pollUnit, pollRid, pollErr, start_time,
              cycleWork, job_status, fetches, history, events,
              reply, deferred>>

----------------------------------------------------------------------------
(* Bounds *)

MaxTimeout == 1
MaxPollInterval == 1
\* longest time a status fetch / a progress callback takes, in clock ticks
MaxFetchDelay == 1
MaxCallbackDelay == 1
\* cap on the number of status fetches of one poll loop; large enough for
\* every configured timeout to fire before the cap
MaxFetches == MaxTimeout + 2

----------------------------------------------------------------------------
(* Optional values: None is the empty sequence, Some(v) a one-element one *)

None == <<>>
Some(v) == <<v>>
IsSome(o) == o # <<>>
Get(o) == o[1]

----------------------------------------------------------------------------
(* error_codes.py *)

ERROR_CODES ==
    (101 :> "Not enough credits") @@
    (201 :> "Error downloading the video or DM asset") @@
    (202 :> "Error converting the video") @@
    (503 :> "Error processing the parameters") @@
    (504 :> "Error loading the character assets") @@
    (505 :> "Physics Filter is incompatible with the custom characters") @@
    (506 :> "Error creating the pose estimation") @@
    (507 :> "Error while processing the body tracking") @@
    (508 :> "Input video or image doesn't meet the requirements to generate animations of good quality") @@
    (509 :> "Error loading the configurations") @@
    (510 :> "Error open internal files") @@
    (511 :> "Processing interrupted") @@
    (513 :> "Failed to detect character in the video") @@
    (599 :> "Body tracking timeout") @@
    (701 :> "Error processing the face tracking") @@
    (799 :> "Face tracking timeout") @@
    (901 :> "Error loading the mesh of the custom character") @@
    (902 :> "Error loading the BVH custom character") @@
    (903 :> "Error copying animations onto the custom character") @@
    (904 :> "Error exporting animations for the custom character") @@
    (905 :> "Custom character doesn't include skinned mesh information") @@
    (906 :> "More than half of the required blendshapes are missing") @@
    (907 :> "Error loading facial definition for the custom character") @@
    (908 :> "Error loading facial tracking data") @@
    (909 :> "Error loading the metadata of the custom character") @@
    (999 :> "Animation baking timeout") @@
    (1301 :> "Error creating the hand estimation") @@
    (1302 :> "Error creating the hand estimation") @@
    (1303 :> "Error creating the hand estimation") @@
    (1304 :> "Error opening the video") @@
    (1305 :> "Error parsing video path") @@
    (1306 :> "Error loading internal files") @@
    (1307 :> "Error processing hand tracking") @@
    (1308 :> "Error processing the video") @@
    (1399 :> "Hand tracking timeout")

\* A raw code value of the service: an int, a str or a list of ints/strs.
IntVal(i) == [t |-> "int", i |-> i, s |-> "", l |-> <<>>]
StrVal(s) == [t |-> "str", i |-> 0, s |-> s, l |-> <<>>]
ListVal(l) == [t |-> "list", i |-> 0, s |-> "", l |-> l]

\* int(s) on the numeric strings the model feeds in; None is ValueError
IntOfStr(s) ==
    CASE s = "0" -> Some(0)
      [] s = "101" -> Some(101)
      [] s = "999" -> Some(999)
      [] s = "4242" -> Some(4242)
      [] OTHER -> None

\* str(x) of a scalar raw value
StrOf(x) == IF x.t = "int" THEN ToString(x.i) ELSE x.s

_parse_error_code(code) ==
    CASE code.t = "int" -> Some(code.i)
      [] code.t = "str" -> IntOfStr(code.s)
      [] OTHER -> None

\* `code_int and code_int in ERROR_CODES`
KnownCode(p) == IsSome(p) /\ Get(p) # 0 /\ Get(p) \in DOMAIN ERROR_CODES

RECURSIVE JoinWith(_, _)
JoinWith(msgs, sep) ==
    IF Len(msgs) = 0 THEN ""
    ELSE IF Len(msgs) = 1 THEN msgs[1]
    ELSE msgs[1] \o sep \o JoinWith(Tail(msgs), sep)

\* a single-code branch that never consults the code table
GetErrorMessageScalarRaw(code) == StrOf(code)

\* get_error_message on a scalar (the `# Handle single code` part)
GetErrorMessageScalar(code) ==
    LET p == _parse_error_code(code) IN
    IF KnownCode(p)
    THEN "Error " \o ToString(Get(p)) \o ": " \o ERROR_CODES[Get(p)]
    ELSE StrOf(code)

\* one element of the list branch of get_error_message
GetErrorMessageElem(code) ==
    LET p == _parse_error_code(code) IN
    IF KnownCode(p)
    THEN "Error " \o ToString(Get(p)) \o ": " \o ERROR_CODES[Get(p)]
    ELSE "Error " \o StrOf(code)

\* get_error_message(error_code); the argument is an Optional raw value
get_error_message(error_code) ==
    IF ~IsSome(error_code) THEN "Unknown error"
    ELSE LET c == Get(error_code) IN
         IF c.t = "list"
         THEN IF Len(c.l) = 0 THEN "Unknown error"
              ELSE JoinWith([k \in 1..Len(c.l) |-> GetErrorMessageElem(c.l[k])], "; ")
         ELSE GetErrorMessageScalar(c)

\* Python truthiness of a scalar raw value
Truthy(x) == IF x.t = "int" THEN x.i # 0 ELSE x.s # ""

\* Python truthiness of any raw value
TruthyValue(x) == IF x.t = "list" THEN Len(x.l) > 0 ELSE Truthy(x)

\* a formatter that drops the type tag
format_error_message_no_type(exc_message, exc_type) ==
    get_error_message(exc_message)

\* format_error_message(exc_message, exc_type); both arguments Optional
format_error_message(exc_message, exc_type) ==
    LET message ==
          IF ~IsSome(exc_message) THEN "Unknown error"
          ELSE LET m == Get(exc_message) IN
               IF m.t = "list"
               THEN JoinWith([k \in 1..Len(m.l) |-> get_error_message(Some(m.l[k]))], "; ")
               ELSE IF Truthy(m)
                    THEN LET parsed == _parse_error_code(m) IN
                         IF KnownCode(parsed)
                         THEN get_error_message(Some(IntVal(Get(parsed))))
                         ELSE StrOf(m)
                    ELSE "Unknown error"
    IN IF IsSome(exc_type) /\ Get(exc_type) # ""
       THEN Get(exc_type) \o ": " \o message
       ELSE message

----------------------------------------------------------------------------
(* data/enums.py, data/job_status.py, data/callback.py *)

Statuses == {"STARTING", "PROGRESS", "SUCCESS", "FAILURE", "RETRY"}
StatusNone == "None"

\* the `details` object of a status entry; every key may be absent
RawDetails(step, total, msg, type, inp, out) ==
    [step |-> step, total |-> total, exc_message |-> msg, exc_type |-> type,
     in |-> inp, out |-> out]

\* JobStatusDetails.from_dict
JobStatusDetails_from_dict(data) ==
    [step |-> data.step,
     total |-> data.total,
     exc_message |-> IF IsSome(data.exc_message)
                     THEN Some(format_error_message(data.exc_message, data.exc_type))
                     ELSE None,
     exc_type |-> data.exc_type,
     input_file |-> data.in,
     output_file |-> data.out]

JobStatus(r, status, details, queue) ==
    [rid |-> r, status |-> status, details |-> details, position_in_queue |-> queue]

\* one entry of the `status` array of a /status response
StatusEntry(r, status, details, queue) ==
    [rid |-> r, status |-> status, details |-> details, positionInQueue |-> queue]

\* a parser that takes every status but Success and Failure for Progress
JobStatus_from_dict_lenient(data) ==
    JobStatus(data.rid,
              IF data.status \in {"SUCCESS", "FAILURE"} THEN data.status ELSE "PROGRESS",
              IF IsSome(data.details)
              THEN Some(JobStatusDetails_from_dict(Get(data.details)))
              ELSE None,
              IF IsSome(data.positionInQueue) THEN data.positionInQueue ELSE Some(0))

\* JobStatus.from_dict: Status(data["status"]) raising ValueError leaves None
JobStatus_from_dict(data) ==
    JobStatus(data.rid,
              IF data.status \in Statuses THEN data.status ELSE StatusNone,
              IF IsSome(data.details)
              THEN Some(JobStatusDetails_from_dict(Get(data.details)))
              ELSE None,
              IF IsSome(data.positionInQueue) THEN data.positionInQueue ELSE Some(0))

\* a /status response: count and the status array
Response(count, entries) == [count |-> count, status |-> entries]

\* a status source that reports a failure when the service has no entry
get_job_status_failing(r, data) ==
    IF data.count > 0 /\ Len(data.status) > 0
    THEN JobStatus_from_dict(data.status[1])
    ELSE JobStatus(r, "FAILURE", None, None)

\* get_job_status, given the response of GET /status/{rid}
get_job_status(r, data) ==
    IF data.count > 0 /\ Len(data.status) > 0
    THEN JobStatus_from_dict(data.status[1])
    ELSE JobStatus(r, "PROGRESS", None, None)

\* value of job_status before the first fetch of a poll loop
Unfetched == JobStatus("", StatusNone, None, None)

\* math.ceil(a / b) for b > 0
CeilDiv(a, b) == IF a % b = 0 THEN a \div b ELSE (a \div b) + 1

\* `step`, `total` and `percent` of _poll_job
StepOf(js) ==
    IF IsSome(js.details) /\ IsSome(Get(js.details).step)
       /\ Get(Get(js.details).step) # 0
    THEN Get(Get(js.details).step) ELSE 0

TotalOf(js) ==
    IF IsSome(js.details) /\ IsSome(Get(js.details).total)
       /\ Get(Get(js.details).total) # 0
    THEN Get(Get(js.details).total) ELSE 100

\* (step / total) * 100 is computed in binary floating point; these are the
\* pairs with -3 <= step <= 13 and 1 <= total <= 12 or total = 100 where the
\* rounded product lies just above the exact one, so that math.ceil gives
\* one more than the exact ceiling
FloatExcess(step, total) ==
    IF <<step, total>> \in {<<7, 100>>, <<14, 100>>, <<28, 100>>, <<55, 100>>,
                            <<56, 100>>, <<11, 5>>, <<11, 10>>}
    THEN 1 ELSE 0

Percent(js) ==
    IF TotalOf(js) > 0
    THEN CeilDiv(StepOf(js) * 100, TotalOf(js)) + FloatExcess(StepOf(js), TotalOf(js))
    ELSE 0

\* callback payloads and default messages, as entries of the event log
ProgressCallbackData(r, percent, queue) ==
    [kind |-> "progress", rid |-> r, percent |-> Some(percent), queue |-> queue,
     result |-> None, error |-> None, text |-> ""]

ResultCallbackData(r, result, error) ==
    [kind |-> "result", rid |-> r, percent |-> None, queue |-> None,
     result |-> result, error |-> error, text |-> ""]

Printed(r, text) ==
    [kind |-> "print", rid |-> r, percent |-> None, queue |-> None,
     result |-> None, error |-> None, text |-> text]

JobResult(inp, out) == [input |-> inp, output |-> out]
JobError(code, message) == [code |-> code, message |-> message]

\* the default message of the Progress branch
ProgressText(js) ==
    IF IsSome(js.position_in_queue) /\ Get(js.position_in_queue) # 0
    THEN "Position in queue: " \o ToString(Get(js.position_in_queue)) \o ")"
    ELSE "Progress: " \o ToString(Percent(js)) \o "%"

\* result_data of the terminal branch (Success): a Python list is a sequence
\* of raw values, and `[job_status.details.input_file]` is the list whose one
\* element is the reported value
ResultDataOf(js) ==
    JobResult(IF IsSome(js.details) /\ IsSome(Get(js.details).input_file)
                 /\ TruthyValue(Get(Get(js.details).input_file))
              THEN <<Get(Get(js.details).input_file)>>
              ELSE <<>>,
              IF IsSome(js.details) THEN Get(js.details).output_file ELSE None)

\* error_data of the terminal branch (Failure)
ErrorDataOf(js) ==
    JobError(IF IsSome(js.details) THEN Get(js.details).exc_type ELSE Some("Unknown"),
             IF IsSome(js.details) THEN Get(js.details).exc_message
             ELSE Some("Unknown error"))

\* a ResultCallbackData that never carries the error
ResultEventOfNoError(r, js) ==
    ResultCallbackData(r, Some(ResultDataOf(js)), None)

\* a ResultCallbackData that always carries a result next to the error
ResultEventOfBoth(r, js) ==
    ResultCallbackData(r, Some(ResultDataOf(js)),
                       IF js.status = "SUCCESS" THEN None ELSE Some(ErrorDataOf(js)))

\* the ResultCallbackData built for a terminal status
ResultEventOf(r, js) ==
    IF js.status = "SUCCESS"
    THEN ResultCallbackData(r, Some(ResultDataOf(js)), None)
    ELSE ResultCallbackData(r, None, Some(ErrorDataOf(js)))

\* a terminal check that forgets Failure
IsTerminalSuccessOnly(js) == js.status = "SUCCESS"

IsTerminal(js) == js.status \in {"SUCCESS", "FAILURE"}

----------------------------------------------------------------------------
(* Inputs: the arguments of the initiating call and the service's replies *)

Clients == {"sync", "async"}
Ops == {"start_new_job", "prepare_multi_person_job",
        "start_multi_person_job", "rerun_job"}
Rids == {"r1"}

\* timeout = 0 stands for both None and 0 (`if timeout and ...`)
Timeouts == {0, MaxTimeout}
PollIntervals == {1, MaxPollInterval}
\* a fetch or callback is immediate or takes the longest time
Delays(max) == {0, max}

\* what the registered progress callback is: a plain function returning
\* None, a coroutine function, or a plain function that returns an awaitable
\* (progress_callback: Callable[[ProgressCallbackData], Optional[Awaitable[None]]])
CallbackKinds == {"function", "coroutinefunction", "awaitable"}

CallsOf(kinds) ==
    [client : Clients, op : Ops, blocking : BOOLEAN,
     result_callback : BOOLEAN, progress_callback : BOOLEAN,
     progress_kind : kinds,
     timeout : Timeouts, poll_interval : PollIntervals]

\* the calls whose callbacks are plain functions
Calls == CallsOf({"function"})

ProgressDetails(step, total) ==
    RawDetails(Some(step), Some(total), None, None, None, None)
SuccessDetails ==
    RawDetails(None, None, None, None, Some(ListVal(<<StrVal("video.mp4")>>)),
               Some(ListVal(<<StrVal("anim.fbx")>>)))
FailureDetails ==
    RawDetails(None, None, Some(ListVal(<<StrVal("101")>>)), Some("CreditError"),
               None, None)

\* the replies GET /status/{rid} may give for job r
StatusResponses(r) ==
    { Response(0, <<>>),
      Response(1, <<StatusEntry(r, "PROGRESS", Some(ProgressDetails(1, 4)), Some(2))>>),
      Response(1, <<StatusEntry(r, "PROGRESS", Some(ProgressDetails(4, 4)), None)>>),
      Response(1, <<StatusEntry(r, "RETRY", Some(FailureDetails), None)>>),
      Response(1, <<StatusEntry(r, "SUCCESS", Some(SuccessDetails), None)>>),
      Response(1, <<StatusEntry(r, "FAILURE", Some(FailureDetails), None)>>),
      Response(1, <<StatusEntry(r, "FAILURE", None, None)>>) }

\* `self._session` / `self._cookie_jar` and `self._authenticated` of a client
ClientState(session, authenticated) ==
    [session |-> session, authenticated |-> authenticated]

\* the client after __init__
NewClient == ClientState(FALSE, FALSE)

\* a session getter that authenticates anew on every request
_get_session_renewing(cs) == ClientState(TRUE, ~cs.authenticated)

\* _get_session of the sync client, the head of _request of the async one:
\* the session (cookie jar) is created and authenticated on first use
_get_session(cs) ==
    IF ~cs.session THEN ClientState(TRUE, TRUE)
    ELSE IF ~cs.authenticated THEN ClientState(TRUE, TRUE)
    ELSE cs

NoError == [type |-> "none", rid |-> ""]
\* exceptions.py: TimeoutError(message, rid)
TimeoutError(r) == [type |-> "TimeoutError", rid |-> r]
\* exceptions.py: APIError, raised by _request
APIError == [type |-> "APIError", rid |-> ""]
\* `job_status.details.exc_message` with details None
AttributeError == [type |-> "AttributeError", rid |-> ""]
\* whatever a callback of the caller raises
CallbackError == [type |-> "CallbackError", rid |-> ""]

\* the record of the last operation on a ProcessParams object: none yet
NoOp == [op |-> "none", target |-> "none", out |-> <<>>]

\* no resolver call made and no ProcessParams object built by the caller
LibraryUnused ==
    /\ resolution = None
    /\ heap = <<>>
    /\ params = None
    /\ duplicate = None
    /\ assigned = {}
    /\ last_op = NoOp

----------------------------------------------------------------------------
(* The initiating operations: start_new_job, prepare_multi_person_job,     *)
(* start_multi_person_job, rerun_job of both clients                       *)

ClientInit(calls) ==
    /\ call \in calls
    /\ callPc = "start"
    /\ callErr = NoError
    /\ rid = None
    /\ retval = None
    /\ submissions = 0
    /\ pollPc = "idle"
    /\ pollUnit = "none"
    /\ pollRid = None
    /\ pollErr = NoError
    /\ start_time = 0
    /\ now = 0
    /\ cycleWork = 0
    /\ job_status = Unfetched
    /\ fetches = 0
    /\ history = <<>>
    /\ events = <<>>
    /\ reply = None
    /\ deferred = 0
    /\ client_state = NewClient

\* a call on a new client, the library's pure parts not used on their own
InitWith(calls) == ClientInit(calls) /\ LibraryUnused

\* one call on a new client
Init == InitWith(Calls) /\ parked = None

\* an operation that polls whatever it was asked
ShouldPollAlways(c) == TRUE

\* the condition under which the operation polls the new job
ShouldPoll(c) ==
    IF c.op = "start_multi_person_job"
    THEN c.progress_callback \/ c.result_callback
    ELSE c.blocking \/ c.progress_callback \/ c.result_callback

\* an operation that always runs _poll_job itself
PollUnitInline(c) == "inline"

\* who runs _poll_job: the caller itself, a threading.Thread or an asyncio task
PollUnit(c) ==
    IF c.blocking THEN "inline"
    ELSE IF c.client = "sync" THEN "thread" ELSE "task"

\* _upload_video (where the operation has one) and _process_video succeed
SubmitFrom(rids) ==
    /\ callPc = "start"
    /\ \E r \in rids : rid' = Some(r)
    /\ submissions' = submissions + 1
    /\ callPc' = "submitted"
    /\ client_state' = _get_session(client_state)
    /\ UNCHANGED libVars
    /\ UNCHANGED <<call, callErr, retval, now, parked>>
    /\ UNCHANGED pollVars

Submit == SubmitFrom(Rids)

\* _upload_video or _process_video raises
SubmitFails ==
    /\ callPc = "start"
    /\ callPc' = "raised"
    /\ callErr' = APIError
    /\ client_state' = _get_session(client_state)
    /\ UNCHANGED libVars
    /\ UNCHANGED <<call, rid, retval, submissions, now, parked>>
    /\ UNCHANGED pollVars

\* the `if blocking or ...:` block after the submission
Dispatch ==
    /\ callPc = "submitted"
    /\ IF ShouldPoll(call)
       THEN /\ pollUnit' = PollUnit(call)
            /\ pollRid' = rid
            /\ pollPc' = "created"
            /\ callPc' = IF call.blocking THEN "waiting" ELSE "dispatched"
       ELSE /\ callPc' = "dispatched"
            /\ UNCHANGED <<pollUnit, pollRid, pollPc>>
    /\ UNCHANGED libVars
    /\ UNCHANGED <<call, callErr, rid, retval, submissions, now, pollErr,
                   start_time, cycleWork, job_status, fetches, history, events,
                   reply, deferred, client_state, parked>>

\* `return rid`
Return ==
    /\ \/ callPc = "dispatched"
       \/ callPc = "waiting" /\ pollPc = "done"
    /\ callPc' = "returned"
    /\ retval' = rid
    /\ UNCHANGED libVars
    /\ UNCHANGED <<call, callErr, rid, submissions, now, client_state, parked>>
    /\ UNCHANGED pollVars

\* an exception of the inline _poll_job leaves the operation
Propagate ==
    /\ callPc = "waiting"
    /\ pollPc = "raised"
    /\ callPc' = "raised"
    /\ callErr' = pollErr
    /\ UNCHANGED libVars
    /\ UNCHANGED <<call, rid, retval, submissions, now, client_state, parked>>
    /\ UNCHANGED pollVars

----------------------------------------------------------------------------
(* _poll_job of both clients *)

Stopped == pollPc \in {"done", "raised"}

\* `start_time = time.time()`; an asyncio task created by create_task first
\* runs after its creator has given up control, which the operations do only
\* by returning
PollStart ==
    /\ pollPc = "created"
    /\ pollUnit = "task" => callPc = "returned"
    /\ start_time' = now
    /\ cycleWork' = 0
    /\ pollPc' = "fetch"
    /\ UNCHANGED libVars
    /\ UNCHANGED <<call, now, pollUnit, pollRid, pollErr, job_status, fetches,
                   history, events, reply, deferred, client_state, parked>>
    /\ UNCHANGED callVars

\* `job_status = self.get_job_status(rid)` returns a status after d ticks;
\* the service answers with one of `responses`, and the loop is followed for
\* at most `cap` fetches
FetchFrom(responses, cap) ==
    /\ pollPc = "fetch"
    /\ fetches < cap
    /\ \E d \in Delays(MaxFetchDelay), data \in responses :
         /\ reply' = Some(data)
         /\ job_status' = get_job_status(Get(pollRid), data)
         /\ history' = Append(history, job_status')
         /\ now' = now + d
         /\ cycleWork' = cycleWork + d
    /\ client_state' = _get_session(client_state)
    /\ fetches' = fetches + 1
    /\ pollPc' = "progress"
    /\ UNCHANGED libVars
    /\ UNCHANGED <<call, pollUnit, pollRid, pollErr, start_time, events,
                   deferred, parked>>
    /\ UNCHANGED callVars

PollFetch == FetchFrom(StatusResponses(Get(pollRid)), MaxFetches)

\* the request of get_job_status raises APIError
FetchFails(cap) ==
    /\ pollPc = "fetch"
    /\ fetches < cap
    /\ fetches' = fetches + 1
    /\ client_state' = _get_session(client_state)
    /\ pollErr' = APIError
    /\ pollPc' = "raised"
    /\ UNCHANGED libVars
    /\ UNCHANGED <<call, now, pollUnit, pollRid, start_time, cycleWork,
                   job_status, history, events, reply, deferred, parked>>
    /\ UNCHANGED callVars

PollFetchFails == FetchFails(MaxFetches)

\* a callback of the caller runs for c ticks and returns or raises; when it
\* returns, `pending` is the number of awaitables it handed back that the
\* poller does not await
InvokeCallback(data, nextPc, delays, pending) ==
    /\ events' = Append(events, data)
    /\ \E c \in delays :
         /\ now' = now + c
         /\ cycleWork' = cycleWork + c
    /\ \/ pollPc' = nextPc /\ pollErr' = pollErr /\ deferred' = deferred + pending
       \/ pollPc' = "raised" /\ pollErr' = CallbackError /\ deferred' = deferred

\* a poller that awaits whatever awaitable the progress callback hands back
LeftPendingNever(c) == 0

\* the awaitables of one progress callback invocation that the poller leaves
\* un-awaited: the async client awaits the call only under
\* `asyncio.iscoroutinefunction(progress_callback)`, the sync client never
LeftPending(c) ==
    IF c.progress_kind \in {"coroutinefunction", "awaitable"}
       /\ ~(c.client = "async" /\ c.progress_kind = "coroutinefunction")
    THEN 1 ELSE 0

\* `if job_status.status == Status.PROGRESS:` block; dispatch says whether
\* the status is handed to the callback / printed
ProgressBlock(dispatch) ==
    /\ pollPc = "progress"
    /\ IF job_status.status = "PROGRESS" /\ dispatch
       THEN IF call.progress_callback
            THEN InvokeCallback(ProgressCallbackData(Get(pollRid), Percent(job_status),
                                                     job_status.position_in_queue),
                                "terminal", Delays(MaxCallbackDelay), LeftPending(call))
            ELSE /\ events' = Append(events, Printed(Get(pollRid), ProgressText(job_status)))
                 /\ pollPc' = "terminal"
                 /\ UNCHANGED <<now, cycleWork, pollErr, deferred>>
       ELSE /\ pollPc' = "terminal"
            /\ UNCHANGED <<now, cycleWork, pollErr, events, deferred>>
    /\ UNCHANGED libVars
    /\ UNCHANGED <<call, pollUnit, pollRid, start_time, job_status, fetches, history,
                   reply, client_state, parked>>
    /\ UNCHANGED callVars

\* a progress block that reports a percentage only when it has changed
PollProgressOnChange ==
    ProgressBlock(\A i \in 1..(Len(history) - 1) :
                     history[i].status = "PROGRESS" => Percent(history[i]) # Percent(job_status))

PollProgress == ProgressBlock(TRUE)

\* the default message of the terminal branch: Success prints; Failure reads
\* job_status.details.exc_message, which the async client prints and the sync
\* client only evaluates
DefaultTerminalEffect(client, r, js) ==
    IF js.status = "SUCCESS"
    THEN [pc |-> "done", err |-> NoError,
          out |-> <<Printed(r, "Job completed successfully!")>>]
    ELSE IF ~IsSome(js.details)
    THEN [pc |-> "raised", err |-> AttributeError, out |-> <<>>]
    ELSE [pc |-> "done", err |-> NoError,
          out |-> IF client = "async"
                  THEN <<Printed(r, "Job failed: " \o
                                    (IF IsSome(Get(js.details).exc_message)
                                     THEN Get(Get(js.details).exc_message)
                                     ELSE "None"))>>
                  ELSE <<>>]

\* the `if not result_callback:` branch of the terminal block
DefaultTerminal ==
    LET e == DefaultTerminalEffect(call.client, Get(pollRid), job_status) IN
    /\ events' = events \o e.out
    /\ pollPc' = e.pc
    /\ pollErr' = IF e.pc = "raised" THEN e.err ELSE pollErr

\* `if job_status.status in (Status.SUCCESS, Status.FAILURE):` block, which
\* leaves the loop at afterDispatch; no clock is read after the result
\* callback, whose duration is left out. useCallback is `result_callback`
\* being set.
TerminalBlock(afterDispatch, useCallback) ==
    /\ pollPc = "terminal"
    /\ IF IsTerminal(job_status)
       THEN IF useCallback
            THEN InvokeCallback(ResultEventOf(Get(pollRid), job_status), afterDispatch, {0}, 0)
            ELSE DefaultTerminal /\ UNCHANGED <<now, cycleWork, deferred>>
       ELSE /\ pollPc' = "timeout"
            /\ UNCHANGED <<now, cycleWork, pollErr, events, deferred>>
    /\ UNCHANGED libVars
    /\ UNCHANGED <<call, pollUnit, pollRid, start_time, job_status, fetches, history,
                   reply, client_state, parked>>
    /\ UNCHANGED callVars

\* the terminal block without its `return`: the loop goes on to the timeout
\* check after the result callback
PollTerminalNoReturn == TerminalBlock("timeout", call.result_callback)

\* the terminal block handing only a Success to the result callback
PollTerminalSuccessOnly ==
    TerminalBlock("done", call.result_callback /\ job_status.status = "SUCCESS")

PollTerminal == TerminalBlock("done", call.result_callback)

\* a timeout check that never fires
TimedOutNever(timeout, t, start) == FALSE

\* a timeout check with a grace period of two ticks
TimedOutLate(timeout, t, start) == timeout # 0 /\ (t - start) > timeout + 2

\* a timeout check that takes no timeout for a timeout of zero seconds
TimedOutAlways(timeout, t, start) == (t - start) > timeout

\* `timeout and (time.time() - start_time) > timeout`
TimedOut(timeout, t, start) == timeout # 0 /\ (t - start) > timeout

\* the timeout check that ends a cycle
PollTimeout ==
    /\ pollPc = "timeout"
    /\ IF TimedOut(call.timeout, now, start_time)
       THEN /\ pollErr' = TimeoutError(Get(pollRid))
            /\ pollPc' = "raised"
       ELSE /\ pollPc' = "sleep"
            /\ pollErr' = pollErr
    /\ UNCHANGED libVars
    /\ UNCHANGED <<call, now, pollUnit, pollRid, start_time, cycleWork,
                   job_status, fetches, history, events, reply, deferred,
                   client_state, parked>>
    /\ UNCHANGED callVars

\* `time.sleep(poll_interval)` / `await asyncio.sleep(poll_interval)`
PollSleep ==
    /\ pollPc = "sleep"
    /\ now' = now + call.poll_interval
    /\ cycleWork' = 0
    /\ pollPc' = "fetch"
    /\ UNCHANGED libVars
    /\ UNCHANGED <<call, pollUnit, pollRid, pollErr, start_time, job_status,
                   fetches, history, events, reply, deferred, client_state, parked>>
    /\ UNCHANGED callVars

----------------------------------------------------------------------------

CallNext == Submit \/ SubmitFails \/ Dispatch \/ Return \/ Propagate

PollNext == PollStart \/ PollFetch \/ PollFetchFails \/ PollProgress
              \/ PollTerminal \/ PollTimeout \/ PollSleep

Next == CallNext \/ PollNext

Spec == Init /\ [][Next]_vars

\* calls with a timeout configured
TimeoutInit == Init /\ call.timeout > 0

\* the caller's thread, the poller thread and the event loop all keep running
FairSpec == TimeoutInit /\ [][Next]_vars /\ WF_vars(CallNext) /\ WF_vars(PollNext)

----------------------------------------------------------------------------
(* Properties of the poll loop *)

IsResult(e) == e.kind = "result"
IsProgress(e) == e.kind = "progress"

ResultCount == Len(SelectSeq(events, IsResult))
ProgressCount == Len(SelectSeq(events, IsProgress))

BothCallbacks == call.result_callback /\ call.progress_callback

\* C1: the result callback is invoked at most once, and once it has been
\* invoked the poller fetches no further status and produces no further
\* progress or result event (nor default message).
C1_ResultOnceThenSilent ==
    /\ [](ResultCount <= 1)
    /\ [][ResultCount >= 1 => (fetches' = fetches /\ events' = events)]_vars

\* a poller that stopped after progress events and its one result event
C1_Witness ==
    /\ Stopped
    /\ ResultCount = 1
    /\ ProgressCount >= 1
    /\ fetches >= 2

\* C2 as stated: with both callbacks registered, a stopped poller has made
\* zero or more progress invocations followed by exactly one result
\* invocation, whatever the exit path; stated here for the exits the claim
\* names, a terminal status and the timeout abort.
C2_ExactlyOneResultOnEveryExit ==
    (Stopped /\ BothCallbacks /\ pollErr.type \notin {"APIError", "CallbackError"}) =>
        /\ Len(events) >= 1
        /\ events[Len(events)].kind = "result"
        /\ \A i \in 1..(Len(events) - 1) : events[i].kind = "progress"

\* C2 as amended: with both callbacks registered, a stopped poller has made
\* zero or more progress invocations followed by at most one result
\* invocation; there is exactly one when the poller stopped on a fetched
\* Success or Failure status and none when it stopped by the timeout abort or
\* by an error of the status fetch or of a progress callback.
C2_ProgressThenAtMostOneResult ==
    (Stopped /\ BothCallbacks) =>
        /\ \A i \in 1..Len(events) :
              \/ events[i].kind = "progress"
              \/ events[i].kind = "result" /\ i = Len(events)
        /\ ResultCount = 1 <=> job_status.status \in {"SUCCESS", "FAILURE"}
        /\ pollErr.type \in {"TimeoutError", "APIError"} => ResultCount = 0
        /\ pollPc = "done" => ResultCount = 1

\* the timeout abort after a progress invocation: no result invocation at all
C2_Witness ==
    /\ Stopped
    /\ BothCallbacks
    /\ pollErr.type = "TimeoutError"
    /\ ProgressCount >= 1
    /\ ResultCount = 0

\* the fetched statuses are n >= 0 Progress statuses and then one Success
ProgressThenSuccess ==
    /\ Len(history) >= 1
    /\ history[Len(history)].status = "SUCCESS"
    /\ \A i \in 1..(Len(history) - 1) : history[i].status = "PROGRESS"

\* C3: with no timeout configured and both callbacks registered, n Progress
\* responses followed by one Success response give exactly n progress
\* invocations, in response order, and then exactly one result invocation.
C3_ProgressThenSuccessEvents ==
    (Stopped /\ BothCallbacks /\ call.timeout = 0 /\ ProgressThenSuccess) =>
        /\ Len(events) = Len(history)
        /\ \A i \in 1..(Len(history) - 1) :
              /\ events[i].kind = "progress"
              /\ events[i].rid = Get(rid)
              /\ events[i].percent = Some(Percent(history[i]))
              /\ events[i].queue = history[i].position_in_queue
        /\ events[Len(events)].kind = "result"
        /\ events[Len(events)].rid = Get(rid)
        /\ IsSome(events[Len(events)].result)
        /\ events[Len(events)].error = None

\* two Progress responses with different percentages, then Success
C3_Witness ==
    /\ pollPc = "done"
    /\ BothCallbacks
    /\ call.timeout = 0
    /\ ProgressThenSuccess
    /\ Len(history) = 3
    /\ events[1].percent = Some(25)
    /\ events[2].percent = Some(100)

\* every status fetched so far is non-terminal
AllNonTerminal ==
    \A i \in 1..Len(history) : history[i].status \notin {"SUCCESS", "FAILURE"}

\* C4: with a timeout T > 0 a started poller eventually stops, and when every
\* status it fetched is non-terminal (and neither a fetch nor a callback
\* raised) it has stopped by raising TimeoutError carrying the rid of the
\* polled job, without any result invocation.
C4_TimeoutAborts ==
    /\ []((Stopped /\ call.timeout > 0 /\ AllNonTerminal
             /\ pollErr.type \notin {"APIError", "CallbackError"}) =>
            (pollErr = [type |-> "TimeoutError", rid |-> Get(rid)] /\ ResultCount = 0))
    /\ ((pollPc \notin {"idle", "done", "raised"} /\ call.timeout > 0) ~> Stopped)

\* a timeout abort after at least two non-terminal fetches
C4_Witness ==
    /\ pollPc = "raised"
    /\ pollErr.type = "TimeoutError"
    /\ pollErr.rid = Get(rid)
    /\ AllNonTerminal
    /\ fetches >= 2
    /\ ResultCount = 0

\* C5 as stated: the timeout abort happens no later than
\* deadline + poll_interval, the deadline being start_time + timeout.
C5_AbortWithinOneInterval ==
    pollErr.type = "TimeoutError" =>
        now <= start_time + call.timeout + call.poll_interval

\* C5 as amended: the timeout abort happens no later than one poll cycle
\* after the deadline: deadline + poll_interval + the time the status fetch
\* and the progress dispatch of the aborting cycle took.
C5_AbortWithinOneCycle ==
    pollErr.type = "TimeoutError" =>
        now <= start_time + call.timeout + call.poll_interval + cycleWork

\* an abort later than deadline + poll_interval because the last fetch took time
C5_Witness ==
    /\ pollErr.type = "TimeoutError"
    /\ fetches >= 2
    /\ cycleWork > 0
    /\ now > start_time + call.timeout + call.poll_interval

----------------------------------------------------------------------------
(* Properties of the initiating operations *)

Background == ~call.blocking /\ (call.result_callback \/ call.progress_callback)
NoPollRequested ==
    ~call.blocking /\ ~call.result_callback /\ ~call.progress_callback

\* C6: with blocking=True an initiating operation returns only after its
\* poller has reached a terminal status (a timeout or any other error of the
\* poller leaves the operation as that error instead of a return).
C6_BlockingWaitsForPoller ==
    call.blocking =>
        /\ callPc = "returned" => pollPc = "done"
        /\ (callPc = "raised" /\ IsSome(rid)) => (pollPc = "raised" /\ callErr = pollErr)

\* C7: in background mode the poll loop exists only once the submission has
\* produced the rid, runs on that rid in a thread (sync client) or task (async
\* client) and never in the caller, who does not wait for it and gets the rid
\* of the submission back.
C7_BackgroundHandOff ==
    Background =>
        /\ pollPc # "idle" =>
              /\ IsSome(rid)
              /\ submissions = 1
              /\ pollRid = rid
              /\ pollUnit = IF call.client = "sync" THEN "thread" ELSE "task"
        /\ callPc # "waiting"
        /\ callPc = "returned" => (IsSome(rid) /\ retval = rid /\ pollPc # "idle")
        /\ callPc = "raised" => (pollPc = "idle" /\ rid = None)

\* the operation has returned the rid while its poll loop is still fetching
C7_Witness ==
    /\ Background
    /\ callPc = "returned"
    /\ retval = rid
    /\ pollPc = "sleep"
    /\ fetches >= 1
    /\ AllNonTerminal

\* C8: with blocking=False and no callback the operation performs the
\* submission only: no poller exists, no status is fetched, nothing is
\* dispatched, and the rid of the one submission is returned.
C8_SubmissionOnly ==
    NoPollRequested =>
        /\ pollPc = "idle"
        /\ pollUnit = "none"
        /\ fetches = 0
        /\ events = <<>>
        /\ submissions <= 1
        /\ callPc = "returned" => (submissions = 1 /\ retval = rid /\ IsSome(rid))

\* an operation that has returned after the bare submission
C8_Witness ==
    /\ NoPollRequested
    /\ callPc = "returned"
    /\ submissions = 1
    /\ call.op = "rerun_job"
    /\ call.client = "async"

\* C9 as stated: in blocking mode a fetched Failure status makes the
\* operation raise (a JobFailed error): the call does not return normally.
C9_BlockingFailureRaises ==
    (call.blocking /\ job_status.status = "FAILURE") => callPc # "returned"

\* C9 as amended: in blocking mode with a result callback registered, a
\* fetched Failure status is delivered as one ResultCallbackData whose error
\* carries the code and the message of the status (result absent); the SDK
\* raises no error of its own and the operation returns the rid normally
\* (unless the callback itself raises).
C9_BlockingFailureViaCallback ==
    (call.blocking /\ call.result_callback /\ job_status.status = "FAILURE" /\ Stopped) =>
        /\ ResultCount = 1
        /\ LET e == events[Len(events)] IN
              /\ e.kind = "result"
              /\ e.rid = Get(rid)
              /\ e.result = None
              /\ IsSome(e.error)
              /\ Get(e.error).code = (IF IsSome(job_status.details)
                                      THEN Get(job_status.details).exc_type
                                      ELSE Some("Unknown"))
              /\ Get(e.error).message = (IF IsSome(job_status.details)
                                         THEN Get(job_status.details).exc_message
                                         ELSE Some("Unknown error"))
        /\ pollErr.type \in {"none", "CallbackError"}
        /\ callPc = "raised" => callErr.type = "CallbackError"
        /\ callPc = "returned" => (pollPc = "done" /\ retval = rid)

\* a blocking call that returned normally after the failure was delivered
C9_Witness ==
    /\ call.blocking
    /\ call.result_callback
    /\ job_status.status = "FAILURE"
    /\ callPc = "returned"
    /\ retval = rid
    /\ ResultCount = 1
    /\ events[Len(events)].error =
          Some(JobError(Some("CreditError"),
                        Some("CreditError: Error 101: Not enough credits")))

C12_SyncAsyncSameOutcome ==
    (/\ pollPc = "terminal"
     /\ IsTerminal(job_status)
     /\ ~call.result_callback) =>
        DefaultTerminalEffect("sync", Get(pollRid), job_status)
            = DefaultTerminalEffect("async", Get(pollRid), job_status)

----------------------------------------------------------------------------
(* The poller of the async client with every kind of progress callback *)

\* start_new_job of the async client with a progress callback registered
CallbackCalls ==
    { c \in CallsOf(CallbackKinds) : /\ c.client = "async"
                                     /\ c.op = "start_new_job"
                                     /\ c.progress_callback }

CallbackInit == InitWith(CallbackCalls) /\ parked = None

\* an awaitable the poller dropped: a Task or Future among them is run by the
\* event loop while the poller is suspended in the status fetch or the sleep,
\* or after it has ended; a bare coroutine object is never run
DeferredCompletes ==
    /\ deferred > 0
    /\ pollPc \in {"fetch", "sleep", "done", "raised"}
    /\ deferred' = deferred - 1
    /\ UNCHANGED libVars
    /\ UNCHANGED <<call, now, client_state, parked>>
    /\ UNCHANGED callVars
    /\ UNCHANGED <<pollPc, pollUnit, pollRid, pollErr, start_time, cycleWork,
                   job_status, fetches, history, events, reply>>

CallbackNext == CallNext \/ PollNext \/ DeferredCompletes

CallbackSpec == CallbackInit /\ [][CallbackNext]_vars

\* C11 as stated: the poller does not go on to its next step until the
\* progress callback invoked for the current Progress status has completed,
\* deferred (awaitable) work it hands back included, so that no work of a
\* callback invocation is outstanding while the poller runs on, whether the
\* callback is a plain function or returns an awaitable.
C11_CallbackJoinedBeforeNextStep == deferred = 0

----------------------------------------------------------------------------
(* Two jobs started on one client in background mode, each polled by its   *)
(* own thread or task. The variables of the call and of the poller hold    *)
(* the job whose thread or task is running; `parked` holds those of the    *)
(* other one. The clock and the client's session state are shared.         *)

MultiRids == {"r1", "r2"}
\* cap on the number of status fetches of each of the two pollers
MaxMultiFetches == 1

\* the locals of one initiating call and of its _poll_job
Context ==
    [call |-> call, callPc |-> callPc, callErr |-> callErr, rid |-> rid,
     retval |-> retval, submissions |-> submissions, pollPc |-> pollPc,
     pollUnit |-> pollUnit, pollRid |-> pollRid, pollErr |-> pollErr,
     start_time |-> start_time, cycleWork |-> cycleWork,
     job_status |-> job_status, fetches |-> fetches, history |-> history,
     events |-> events, reply |-> reply, deferred |-> deferred]

\* the locals of a call that has not started yet
InitialContext(c) ==
    [call |-> c, callPc |-> "start", callErr |-> NoError, rid |-> None,
     retval |-> None, submissions |-> 0, pollPc |-> "idle",
     pollUnit |-> "none", pollRid |-> None, pollErr |-> NoError,
     start_time |-> 0, cycleWork |-> 0,
     job_status |-> Unfetched, fetches |-> 0, history |-> <<>>,
     events |-> <<>>, reply |-> None, deferred |-> 0]

\* background calls of start_new_job with both callbacks registered and a
\* timeout
MultiCalls ==
    { c \in Calls : /\ c.op = "start_new_job"
                    /\ ~c.blocking
                    /\ c.result_callback /\ c.progress_callback
                    /\ c.timeout = MaxTimeout
                    /\ c.poll_interval = MaxPollInterval }

MultiInit ==
    /\ InitWith(MultiCalls)
    /\ \E c \in MultiCalls :
          /\ c.client = call.client
          /\ parked = Some(InitialContext(c))

\* the replies for job r followed in MultiSpec
MultiResponses(r) ==
    { Response(1, <<StatusEntry(r, "PROGRESS", Some(ProgressDetails(1, 4)), None)>>),
      Response(1, <<StatusEntry(r, "SUCCESS", Some(SuccessDetails), None)>>),
      Response(1, <<StatusEntry(r, "FAILURE", Some(FailureDetails), None)>>) }

\* the service gives every job an id of its own
MultiSubmit == SubmitFrom({r \in MultiRids : Get(parked).rid # Some(r)})

MultiFetch == FetchFrom(MultiResponses(Get(pollRid)), MaxMultiFetches)

MultiFetchFails == FetchFails(MaxMultiFetches)

\* the other job's thread or task gets to run: a thread is suspended, a task
\* gives up control, in the status request or the sleep, and before it has
\* started or after it has ended
Switch ==
    /\ IsSome(parked)
    /\ pollPc \in {"idle", "created", "fetch", "sleep", "done", "raised"}
    /\ parked' = Some(Context)
    /\ call' = Get(parked).call
    /\ callPc' = Get(parked).callPc
    /\ callErr' = Get(parked).callErr
    /\ rid' = Get(parked).rid
    /\ retval' = Get(parked).retval
    /\ submissions' = Get(parked).submissions
    /\ pollPc' = Get(parked).pollPc
    /\ pollUnit' = Get(parked).pollUnit
    /\ pollRid' = Get(parked).pollRid
    /\ pollErr' = Get(parked).pollErr
    /\ start_time' = Get(parked).start_time
    /\ cycleWork' = Get(parked).cycleWork
    /\ job_status' = Get(parked).job_status
    /\ fetches' = Get(parked).fetches
    /\ history' = Get(parked).history
    /\ events' = Get(parked).events
    /\ reply' = Get(parked).reply
    /\ deferred' = Get(parked).deferred
    /\ UNCHANGED <<now, client_state>>
    /\ UNCHANGED libVars

MultiNext == MultiSubmit \/ SubmitFails \/ Dispatch \/ Return
               \/ PollStart \/ MultiFetch \/ MultiFetchFails \/ PollProgress
               \/ PollTerminal \/ PollTimeout \/ PollSleep \/ Switch

MultiSpec == MultiInit /\ [][MultiNext]_vars

\* the event a poller with both callbacks delivers for one fetched status
EventOfStatus(r, js) ==
    IF js.status = "PROGRESS"
    THEN <<ProgressCallbackData(r, Percent(js), js.position_in_queue)>>
    ELSE IF js.status \in {"SUCCESS", "FAILURE"}
    THEN <<ResultEventOf(r, js)>>
    ELSE <<>>

RECURSIVE ExpectedEvents(_, _)
ExpectedEvents(r, h) ==
    IF Len(h) = 0 THEN <<>>
    ELSE ExpectedEvents(r, SubSeq(h, 1, Len(h) - 1)) \o EventOfStatus(r, h[Len(h)])

\* the statuses a job's poller has fetched and dispatched: all but one just
\* fetched that is still on its way to the callback
DispatchedHistory(ctx) ==
    IF \/ ctx.pollPc = "progress"
       \/ /\ ctx.pollPc = "terminal"
          /\ ctx.job_status.status \in {"SUCCESS", "FAILURE"}
    THEN SubSeq(ctx.history, 1, Len(ctx.history) - 1)
    ELSE ctx.history

\* the events of a job are those of the statuses fetched for it, in order,
\* each carrying the id the job's call was given
JobOwnsEvents(ctx) ==
    IF IsSome(ctx.pollRid)
    THEN /\ ctx.pollRid = ctx.rid
         /\ ctx.events = ExpectedEvents(Get(ctx.rid), DispatchedHistory(ctx))
    ELSE ctx.events = <<>>

\* C13: with two jobs polled concurrently on one client, under every
\* interleaving, each job's events are exactly those of the statuses fetched
\* for that job and carry that job's id; the two jobs have different ids; a
\* running poller writes no client state; and the locals of a job (its start
\* time, its callbacks, its events) are never changed by a step of the other
\* job's call or poller.
C13_PollersIndependent ==
    /\ [](/\ JobOwnsEvents(Context)
          /\ JobOwnsEvents(Get(parked))
          /\ (IsSome(rid) /\ IsSome(Get(parked).rid)) => rid # Get(parked).rid)
    /\ [][(pollPc # "idle" /\ parked' = parked) => client_state' = client_state]_vars
    /\ [][parked' # parked => (parked' = Some(Context) /\ Context' = Get(parked))]_vars

\* both pollers have run to their end, interleaved, one delivering a result
\* and the other an error, after the shared clock has advanced
C13_Witness ==
    /\ pollPc = "done"
    /\ Get(parked).pollPc = "done"
    /\ job_status.status = "SUCCESS"
    /\ Get(parked).job_status.status = "FAILURE"
    /\ events = <<ResultEventOf(Get(rid), job_status)>>
    /\ Get(parked).events = <<ResultEventOf(Get(Get(parked).rid), Get(parked).job_status)>>
    /\ rid # Get(parked).rid
    /\ start_time < Get(parked).start_time
    /\ client_state = ClientState(TRUE, TRUE)

----------------------------------------------------------------------------
(* One poll cycle over everything the service may put into a status entry:  *)
(* the poller of a call with both callbacks registered, fed with any        *)
(* (step, total) pair, any exc_message / exc_type and any in / out          *)

\* bounds of the (step, total) pairs of a Progress entry
MaxStep == 7
MaxTotal == 4
\* cap on the number of status fetches followed in StatusSpec
MaxStatusFetches == 1

OptionalOf(S) == {None} \cup {Some(x) : x \in S}

\* `details` of a Progress entry: step and total may be absent, zero, negative
ProgressDetailsSet ==
    { RawDetails(step, total, None, None, None, None) :
        step \in OptionalOf(-1..MaxStep), total \in OptionalOf(-1..MaxTotal) }

\* exc_message of a Failure entry: a single code, a string or a list of codes
RawMessages ==
    { IntVal(101), IntVal(4242), IntVal(0),
      StrVal("101"), StrVal("4242"), StrVal("out of memory"), StrVal(""),
      ListVal(<<>>), ListVal(<<StrVal("101")>>),
      ListVal(<<IntVal(101), IntVal(999)>>),
      ListVal(<<IntVal(4242)>>),
      ListVal(<<StrVal("101"), StrVal("4242")>>) }

FailureDetailsSet ==
    { RawDetails(None, None, msg, type, None, None) :
        msg \in OptionalOf(RawMessages), type \in OptionalOf({"CreditError"}) }

\* `in` / `out` of a Success entry
SuccessDetailsSet ==
    { RawDetails(None, None, None, None, inp, out) :
        inp \in OptionalOf({ListVal(<<>>), ListVal(<<StrVal("video.mp4")>>),
                             ListVal(<<StrVal("a.mp4"), StrVal("b.mp4")>>)}),
        out \in OptionalOf({ListVal(<<StrVal("anim.fbx")>>)}) }

AnyStatusResponses(r) ==
    { Response(1, <<StatusEntry(r, "PROGRESS", Some(d), None)>>) : d \in ProgressDetailsSet }
    \cup { Response(1, <<StatusEntry(r, "FAILURE", d, None)>>) :
             d \in OptionalOf(FailureDetailsSet) }
    \cup { Response(1, <<StatusEntry(r, "SUCCESS", d, None)>>) :
             d \in OptionalOf(SuccessDetailsSet) }

\* blocking start_new_job with both callbacks registered and no timeout
StatusCalls ==
    { c \in Calls : /\ c.op = "start_new_job"
                    /\ c.blocking
                    /\ c.result_callback /\ c.progress_callback
                    /\ c.timeout = 0
                    /\ c.poll_interval = MaxPollInterval }

StatusInit == Init /\ call \in StatusCalls

StatusFetch == FetchFrom(AnyStatusResponses(Get(pollRid)), MaxStatusFetches)

StatusNext == CallNext \/ PollStart \/ StatusFetch \/ PollProgress
                \/ PollTerminal \/ PollTimeout \/ PollSleep

StatusSpec == StatusInit /\ [][StatusNext]_vars

----------------------------------------------------------------------------
(* Properties of the events built from one status entry *)

\* the raw `details` of the status entry last received
HasRawDetails ==
    /\ IsSome(reply)
    /\ Get(reply).count > 0
    /\ IsSome(Get(reply).status[1].details)
RawDetailsOfReply == Get(Get(reply).status[1].details)

LastEvent == events[Len(events)]

\* the progress callback has just been handed the status last received
ProgressDelivered ==
    /\ pollPc = "terminal"
    /\ job_status.status = "PROGRESS"
    /\ call.progress_callback
    /\ HasRawDetails

\* C14 as stated: for a Progress status whose details carry (step, total),
\* the percent of the ProgressEvent is the ceiling of step / total * 100
\* when total > 0 and is 0 when total <= 0, total = 0 included.
C14_PercentFormula ==
    (/\ ProgressDelivered
     /\ IsSome(RawDetailsOfReply.step)
     /\ IsSome(RawDetailsOfReply.total)) =>
        LET step == Get(RawDetailsOfReply.step)
            total == Get(RawDetailsOfReply.total)
        IN LastEvent.percent =
              Some(IF total > 0 THEN CeilDiv(step * 100, total) ELSE 0)

\* C15 as stated: every ProgressEvent handed to a progress callback carries
\* a percent between 0 and 100, whatever (step, total) the service reported.
C15_PercentInRange ==
    \A i \in 1..Len(events) :
        events[i].kind = "progress" =>
            /\ Get(events[i].percent) >= 0
            /\ Get(events[i].percent) <= 100

\* the result callback has just been handed the status last received
ResultDelivered ==
    /\ Stopped
    /\ call.result_callback
    /\ IsTerminal(job_status)
    /\ Len(events) > 0
    /\ LastEvent.kind = "result"

\* the codes of an exc_message, a single value counting as a list of one
ElementsOf(m) == IF m.t = "list" THEN m.l ELSE <<m>>

IsKnownRaw(x) == x.t # "list" /\ KnownCode(_parse_error_code(x))

AllKnown(m) ==
    /\ Len(ElementsOf(m)) > 0
    /\ \A k \in 1..Len(ElementsOf(m)) : IsKnownRaw(ElementsOf(m)[k])

\* "<T>: " when a type tag is supplied
TypePrefix(type) ==
    IF IsSome(type) /\ Get(type) # "" THEN Get(type) \o ": " ELSE ""

\* "Error <code>: <description>" for every element, joined with "; "
RenderedKnown(m) ==
    JoinWith([k \in 1..Len(ElementsOf(m)) |->
                LET code == Get(_parse_error_code(ElementsOf(m)[k])) IN
                "Error " \o ToString(code) \o ": " \o ERROR_CODES[code]], "; ")

\* C16: for a Failure status whose details carry exc_message M and exc_type T
\* the error.message of the ResultEvent is the resolver's output for (M, T);
\* when every code of M is in the code table that is the elements rendered
\* "Error <code>: <description>", joined with "; " and prefixed with "<T>: ".
C16_FailureMessageResolved ==
    (/\ ResultDelivered
     /\ job_status.status = "FAILURE"
     /\ HasRawDetails
     /\ IsSome(RawDetailsOfReply.exc_message)) =>
        LET M == Get(RawDetailsOfReply.exc_message)
            T == RawDetailsOfReply.exc_type
            message == Get(LastEvent.error).message
        IN /\ message = Some(format_error_message(Some(M), T))
           /\ AllKnown(M) => message = Some(TypePrefix(T) \o RenderedKnown(M))
           /\ (M = ListVal(<<StrVal("101")>>) /\ T = Some("CreditError")) =>
                 message = Some("CreditError: Error 101: Not enough credits")

\* the failure [101, 999] of type CreditError, delivered with both codes
\* rendered and joined
C16_Witness ==
    /\ ResultDelivered
    /\ job_status.status = "FAILURE"
    /\ HasRawDetails
    /\ RawDetailsOfReply.exc_message = Some(ListVal(<<IntVal(101), IntVal(999)>>))
    /\ Get(LastEvent.error).message =
          Some("CreditError: Error 101: Not enough credits; Error 999: Animation baking timeout")

\* C17 as stated: for a Success status whose details carry in = I, a sequence
\* of strings, and out = O, the ResultEvent has the error absent and
\* result = {inputs: I, output: O}, inputs being exactly the reported
\* sequence, with the same elements and the same nesting.
C17_SuccessResultAsReported ==
    (/\ ResultDelivered
     /\ job_status.status = "SUCCESS"
     /\ HasRawDetails
     /\ IsSome(RawDetailsOfReply.in)) =>
        /\ LastEvent.error = None
        /\ LastEvent.result =
              Some(JobResult(Get(RawDetailsOfReply.in).l, RawDetailsOfReply.out))

\* C18: every ResultEvent handed to a result callback has exactly one of
\* result and error populated: the result is set and the error absent iff the
\* terminal status is Success, the error is set and the result absent iff it
\* is Failure, also when the status entry carries no details.
C18_ExactlyOneOfResultAndError ==
    /\ \A i \in 1..Len(events) :
          events[i].kind = "result" =>
              IsSome(events[i].result) # IsSome(events[i].error)
    /\ ResultDelivered =>
          /\ (IsSome(LastEvent.result) /\ LastEvent.error = None)
                <=> job_status.status = "SUCCESS"
          /\ (IsSome(LastEvent.error) /\ LastEvent.result = None)
                <=> job_status.status = "FAILURE"

\* a Failure entry without details, delivered as an error and no result
C18_Witness ==
    /\ ResultDelivered
    /\ job_status.status = "FAILURE"
    /\ ~IsSome(job_status.details)
    /\ LastEvent.result = None
    /\ LastEvent.error = Some(JobError(Some("Unknown"), Some("Unknown error")))

\* every code of m is numeric: an integer or a string int() accepts; the
\* code 0, which the resolver takes for no message at all, is left aside
AllNumeric(m) ==
    /\ Len(ElementsOf(m)) > 0
    /\ \A k \in 1..Len(ElementsOf(m)) :
          /\ ElementsOf(m)[k].t # "list"
          /\ IsSome(_parse_error_code(ElementsOf(m)[k]))
          /\ Get(_parse_error_code(ElementsOf(m)[k])) # 0

\* every code of m is numeric and absent from the code table
AllUnknown(m) ==
    /\ AllNumeric(m)
    /\ \A k \in 1..Len(ElementsOf(m)) : ~IsKnownRaw(ElementsOf(m)[k])

\* the rendering of numeric codes: "Error <code>: <description>" for a code
\* of the table and "Error <original>" for any other, joined with "; "
RenderedCodes(m) ==
    JoinWith([k \in 1..Len(ElementsOf(m)) |->
                LET x == ElementsOf(m)[k] IN
                IF IsKnownRaw(x)
                THEN "Error " \o ToString(Get(_parse_error_code(x))) \o ": "
                        \o ERROR_CODES[Get(_parse_error_code(x))]
                ELSE "Error " \o StrOf(x)], "; ")

\* C19 as stated: the error message delivered for a Failure status has been
\* through the resolver exactly once, so numeric codes reported by the
\* service (known or unknown, integer, numeric string or list element) are
\* always delivered in their "Error ..." rendering, never raw.
C19_NumericCodesNeverRaw ==
    (/\ ResultDelivered
     /\ job_status.status = "FAILURE"
     /\ HasRawDetails
     /\ IsSome(RawDetailsOfReply.exc_message)
     /\ AllNumeric(Get(RawDetailsOfReply.exc_message))) =>
        Get(LastEvent.error).message =
            Some(TypePrefix(RawDetailsOfReply.exc_type)
                   \o RenderedCodes(Get(RawDetailsOfReply.exc_message)))

\* C20 as stated: the resolver turns a code that parses to an integer absent
\* from the code table into "Error <original>", as a single value and as an
\* element of a sequence alike.
C20_UnknownCodeRendered ==
    (/\ HasRawDetails
     /\ IsSome(job_status.details)
     /\ IsSome(RawDetailsOfReply.exc_message)
     /\ AllUnknown(Get(RawDetailsOfReply.exc_message))) =>
        LET m == Get(RawDetailsOfReply.exc_message) IN
        Get(job_status.details).exc_message =
            Some(TypePrefix(RawDetailsOfReply.exc_type)
                   \o JoinWith([k \in 1..Len(ElementsOf(m)) |->
                                  "Error " \o StrOf(ElementsOf(m)[k])], "; "))

----------------------------------------------------------------------------
(* The error resolver called on its own: get_error_message and             *)
(* format_error_message applied to a value, then to their own result       *)

\* how many times the resolver is applied again to its own result
MaxReapply == 1

ResolverEntries == {"get_error_message", "format_error_message"}

\* the type tags a caller passes: absent, empty, or an exception type name
TypeTags == {None, Some(""), Some("CreditError")}

\* one call of an entry point of error_codes.py
Resolve(fn, value, type) ==
    IF fn = "get_error_message"
    THEN get_error_message(value)
    ELSE format_error_message(value, type)

\* the calls of the resolver: get_error_message takes no type tag
Resolutions ==
    {r \in [fn : ResolverEntries, value : OptionalOf(RawMessages),
            type : TypeTags, out : {<<>>}] :
        r.fn = "get_error_message" => r.type = None}

\* the call whose client is never used by the specifications of the pure parts
IdleCall ==
    [client |-> "sync", op |-> "start_new_job", blocking |-> TRUE,
     result_callback |-> FALSE, progress_callback |-> FALSE,
     progress_kind |-> "function", timeout |-> 0, poll_interval |-> 1]

ResolverInit ==
    /\ ClientInit({IdleCall})
    /\ parked = None
    /\ resolution \in {Some(r) : r \in Resolutions}
    /\ heap = <<>>
    /\ params = None
    /\ duplicate = None
    /\ assigned = {}
    /\ last_op = NoOp

\* the entry point is called with the value (and the type tag)
ResolveValue ==
    /\ IsSome(resolution)
    /\ Get(resolution).out = <<>>
    /\ resolution' = Some([Get(resolution) EXCEPT
                             !.out = <<Resolve(Get(resolution).fn,
                                               Get(resolution).value,
                                               Get(resolution).type)>>])
    /\ UNCHANGED <<heap, params, duplicate, assigned, last_op>>
    /\ UNCHANGED <<call, now, client_state, parked>>
    /\ UNCHANGED callVars
    /\ UNCHANGED pollVars

\* the same entry point is called again, with its last result as the value
ResolveResult ==
    /\ IsSome(resolution)
    /\ Len(Get(resolution).out) \in 1..MaxReapply
    /\ LET r == Get(resolution)
           last == r.out[Len(r.out)]
       IN resolution' = Some([r EXCEPT
                                !.out = Append(r.out,
                                               Resolve(r.fn, Some(StrVal(last)), r.type))])
    /\ UNCHANGED <<heap, params, duplicate, assigned, last_op>>
    /\ UNCHANGED <<call, now, client_state, parked>>
    /\ UNCHANGED callVars
    /\ UNCHANGED pollVars

ResolverNext == ResolveValue \/ ResolveResult

ResolverSpec == ResolverInit /\ [][ResolverNext]_vars

\* the resolver has been called on a value
Resolved == IsSome(resolution) /\ Len(Get(resolution).out) >= 1

\* the value has nothing to resolve: absent, or the empty sequence
IsAbsentOrEmpty(value) ==
    \/ ~IsSome(value)
    \/ Get(value).t = "list" /\ Len(Get(value).l) = 0

\* C21: given an absent message or an empty sequence, get_error_message and
\* format_error_message both return "Unknown error", behind "<type>: " when a
\* type tag is supplied.
C21_AbsentResolvesToUnknown ==
    (Resolved /\ IsAbsentOrEmpty(Get(resolution).value)) =>
        Get(resolution).out[1] =
            TypePrefix(Get(resolution).type) \o "Unknown error"

\* C22: the resolver is idempotent on resolved text: called again on its own
\* result (same entry point, same type tag) it returns that result unchanged.
C22_ResolverIdempotent ==
    (IsSome(resolution) /\ Len(Get(resolution).out) >= 2) =>
        Get(resolution).out[2] = Get(resolution).out[1]

\* C22 as the code has it: called again on its own result without a type
\* tag the resolver returns that result unchanged, except that
\* format_error_message turns the "" it returns for an empty sequence into
\* "Unknown error"; called again with the type tag it puts "<type>: " in
\* front once more.
C22_IdempotentWithoutTypeTag ==
    IsSome(resolution) =>
        LET r == Get(resolution) IN
        \A k \in 1..(Len(r.out) - 1) :
            IF TypePrefix(r.type) # ""
            THEN r.out[k + 1] = TypePrefix(r.type) \o r.out[k]
            ELSE IF /\ r.fn = "format_error_message"
                    /\ r.value = Some(ListVal(<<>>))
                    /\ k = 1
                 THEN r.out[1] = "" /\ r.out[2] = "Unknown error"
                 ELSE r.out[k + 1] = r.out[k]

C22_Witness ==
    /\ IsSome(resolution)
    /\ Len(Get(resolution).out) >= 2
    /\ Get(resolution).fn = "format_error_message"
    /\ Get(resolution).value = Some(ListVal(<<IntVal(101), IntVal(999)>>))
    /\ Get(resolution).type = None
    /\ Get(resolution).out[2] =
         "Error 101: Not enough credits; Error 999: Animation baking timeout"

----------------------------------------------------------------------------
(* ProcessParams (data/params.py): the dataclass, to_params_list and copy  *)

\* how many assignments and in-place mutations the caller makes
MaxWrites == 2

\* further Python values: bool, float (held in tenths), tuple, and a
\* reference to a list or dict object of the heap
BoolVal(b) == [t |-> "bool", i |-> IF b THEN 1 ELSE 0, s |-> "", l |-> <<>>]
FloatVal(tenths) == [t |-> "float", i |-> tenths, s |-> "", l |-> <<>>]
TupleVal(l) == [t |-> "tuple", i |-> 0, s |-> "", l |-> l]
RefVal(a) == [t |-> "ref", i |-> a, s |-> "", l |-> <<>>]

\* the objects of the heap: a list (of str, or of references to dicts) and
\* a model assignment {"trackingId": ..., "modelId": ...}
ListObj(items) ==
    [kind |-> "list", items |-> items, trackingId |-> "", modelId |-> ""]
DictObj(trackingId, modelId) ==
    [kind |-> "dict", items |-> <<>>, trackingId |-> trackingId, modelId |-> modelId]

\* the fields of the dataclass, in declaration order
Fields ==
    <<"formats", "model_id", "config", "sim", "track_face", "track_hand",
      "foot_locking_mode", "video_speed_multiplier", "pose_filtering_strength",
      "upper_body_only", "root_at_origin", "trim", "crop", "render_sbs",
      "render_bg_color", "render_backdrop", "render_shadow",
      "render_include_audio", "render_cam_mode", "_models", "_pipeline">>

FieldNames == {Fields[k] : k \in 1..Len(Fields)}

\* ProcessParams(): every field None but config
DefaultParams ==
    [f \in FieldNames |->
        IF f = "config" THEN Some(StrVal("configDefault")) ELSE None]

\* str(x) and f"{x}" of a scalar
PyStr(x) ==
    CASE x.t = "int" -> ToString(x.i)
      [] x.t = "str" -> x.s
      [] x.t = "bool" -> IF x.i = 1 THEN "True" ELSE "False"
      [] x.t = "float" -> ToString(x.i \div 10) \o "." \o ToString(x.i % 10)

\* str.lower() on the texts str(bool) gives
Lower(s) ==
    CASE s = "True" -> "true"
      [] s = "False" -> "false"
      [] OTHER -> s

\* a test that takes every value but None for true
IsNotNone(o, h) == IsSome(o)

\* `if self.<field>:` -- Python truthiness of a field's value
IsTruthy(o, h) ==
    /\ IsSome(o)
    /\ LET x == Get(o) IN
       CASE x.t = "int" -> x.i # 0
         [] x.t = "str" -> x.s # ""
         [] x.t = "bool" -> x.i = 1
         [] x.t = "float" -> x.i # 0
         [] x.t = "tuple" -> Len(x.l) > 0
         [] x.t = "ref" -> Len(h[x.i].items) > 0

\* ",".join(self.formats)
FormatsText(x, h) ==
    JoinWith([k \in 1..Len(h[x.i].items) |-> h[x.i].items[k].s], ",")

\* json.dumps of one model assignment and of the list of them
JsonOfDict(d) ==
    "{\"trackingId\": \"" \o d.trackingId \o "\", \"modelId\": \"" \o d.modelId \o "\"}"
JsonOfModels(x, h) ==
    "[" \o JoinWith([k \in 1..Len(h[x.i].items) |->
                       JsonOfDict(h[h[x.i].items[k].i])], ", ") \o "]"

\* f"{t[0]},{t[1]},..." of a tuple
TupleText(x) == JoinWith([k \in 1..Len(x.l) |-> PyStr(x.l[k])], ",")

\* what to_params_list appends for each field, in the order of its `if`s:
\* the test of the field and the text it appends
ParamsEntries(p, h) ==
    LET V(f) == Get(p[f])
        E(cond, text) == IF cond THEN <<text>> ELSE <<>>
    IN <<
      E(IsTruthy(p["config"], h), "config=" \o PyStr(V("config"))),
      E(IsTruthy(p["formats"], h), "formats=" \o FormatsText(V("formats"), h)),
      E(IsTruthy(p["model_id"], h), "model=" \o PyStr(V("model_id"))),
      E(IsTruthy(p["_models"], h), "models=" \o JsonOfModels(V("_models"), h)),
      E(IsSome(p["sim"]), "sim=" \o PyStr(V("sim"))),
      E(IsSome(p["track_face"]), "trackFace=" \o PyStr(V("track_face"))),
      E(IsSome(p["track_hand"]), "trackHand=" \o PyStr(V("track_hand"))),
      E(IsTruthy(p["foot_locking_mode"], h),
        "footLockingMode=" \o PyStr(V("foot_locking_mode"))),
      E(IsSome(p["video_speed_multiplier"]),
        "videoSpeedMultiplier=" \o PyStr(V("video_speed_multiplier"))),
      E(IsSome(p["pose_filtering_strength"]),
        "poseFilteringStrength=" \o PyStr(V("pose_filtering_strength"))),
      E(IsSome(p["upper_body_only"]),
        "upperBodyOnly=" \o Lower(PyStr(V("upper_body_only")))),
      E(IsSome(p["root_at_origin"]),
        "rootAtOrigin=" \o Lower(PyStr(V("root_at_origin")))),
      E(IsTruthy(p["trim"], h), "trim=" \o TupleText(V("trim"))),
      E(IsTruthy(p["crop"], h), "crop=" \o TupleText(V("crop"))),
      E(IsSome(p["render_sbs"]), "render.sbs=" \o PyStr(V("render_sbs"))),
      E(IsTruthy(p["render_bg_color"], h),
        "render.bgColor=" \o TupleText(V("render_bg_color"))),
      E(IsTruthy(p["render_backdrop"], h),
        "render.backdrop=" \o PyStr(V("render_backdrop"))),
      E(IsSome(p["render_shadow"]), "render.shadow=" \o PyStr(V("render_shadow"))),
      E(IsSome(p["render_include_audio"]),
        "render.includeAudio=" \o PyStr(V("render_include_audio"))),
      E(IsSome(p["render_cam_mode"]),
        "render.CamMode=" \o PyStr(V("render_cam_mode"))),
      E(IsTruthy(p["_pipeline"], h), "pipeline=" \o PyStr(V("_pipeline")))
    >>

\* the concatenation of a sequence of sequences
RECURSIVE Flatten(_)
Flatten(ss) == IF Len(ss) = 0 THEN <<>> ELSE Head(ss) \o Flatten(Tail(ss))

\* a sequence back to front
RECURSIVE Reverse(_)
Reverse(ss) == IF Len(ss) = 0 THEN <<>> ELSE Append(Reverse(Tail(ss)), Head(ss))

\* an encoder that appends in the opposite order
to_params_list_reversed(p, h) == Flatten(Reverse(ParamsEntries(p, h)))

\* ProcessParams.to_params_list
to_params_list(p, h) == Flatten(ParamsEntries(p, h))

\* ProcessParams.copy: a new object whose formats and _models are new lists
\* holding the same items (list.copy()), None when the list is empty or None
params_copy(p, h) ==
    LET hasF == IsTruthy(p["formats"], h)
        hf == IF hasF THEN Append(h, ListObj(h[Get(p["formats"]).i].items)) ELSE h
        hasM == IsTruthy(p["_models"], h)
        hm == IF hasM THEN Append(hf, ListObj(h[Get(p["_models"]).i].items)) ELSE hf
    IN [obj |-> [p EXCEPT !["formats"] = IF hasF THEN Some(RefVal(Len(hf))) ELSE None,
                          !["_models"] = IF hasM THEN Some(RefVal(Len(hm))) ELSE None],
        heap |-> hm]

\* the values the caller gives to the fields that hold no list
ScalarValues(f) ==
    CASE f = "model_id" -> {StrVal(""), StrVal("m1")}
      [] f = "config" -> {StrVal(""), StrVal("configCustom")}
      [] f = "sim" -> {IntVal(0), IntVal(1)}
      [] f = "track_face" -> {IntVal(1)}
      [] f = "track_hand" -> {IntVal(1)}
      [] f = "foot_locking_mode" -> {StrVal(""), StrVal("auto")}
      [] f = "video_speed_multiplier" -> {FloatVal(20)}
      [] f = "pose_filtering_strength" -> {FloatVal(0), FloatVal(5)}
      [] f = "upper_body_only" -> {BoolVal(FALSE), BoolVal(TRUE)}
      [] f = "root_at_origin" -> {BoolVal(TRUE)}
      [] f = "trim" -> {TupleVal(<<>>), TupleVal(<<FloatVal(0), FloatVal(15)>>)}
      [] f = "crop" -> {TupleVal(<<FloatVal(0), FloatVal(0), FloatVal(10), FloatVal(5)>>)}
      [] f = "render_sbs" -> {IntVal(0)}
      [] f = "render_bg_color" ->
           {TupleVal(<<>>), TupleVal(<<IntVal(0), IntVal(177), IntVal(64), IntVal(0)>>)}
      [] f = "render_backdrop" -> {StrVal("studio")}
      [] f = "render_shadow" -> {IntVal(0)}
      [] f = "render_include_audio" -> {IntVal(1)}
      [] f = "render_cam_mode" -> {IntVal(2)}
      [] f = "_pipeline" -> {StrVal(""), StrVal("custom")}
      [] OTHER -> {}

\* the lists the caller gives to formats, and the format it appends
FormatLists == {<<>>, <<StrVal("bvh")>>, <<StrVal("bvh"), StrVal("fbx")>>}
AppendedFormat == StrVal("mp4")

\* the model assignments the caller passes, and the model it changes one to
ModelLists == {<<>>, <<DictObj("001", "m1")>>}
AppendedModel == DictObj("002", "m2")
ChangedModelId == "m9"

\* the fields the caller assigns again once the object has been copied
RebindFields == {"sim"}

Targets == {"params", "duplicate"}

\* the object a name of the caller is bound to
Obj(t) == IF t = "params" THEN params ELSE duplicate

\* the variables of the client, which the operations on ProcessParams leave alone
clientVars == <<call, now, client_state, parked, callVars, pollVars>>

ParamsInit ==
    /\ ClientInit({IdleCall})
    /\ parked = None
    /\ resolution = None
    /\ heap = <<>>
    /\ params = Some(DefaultParams)
    /\ duplicate = None
    /\ assigned = [fields |-> {}, writes |-> 0]
    /\ last_op = NoOp

\* the bookkeeping of a write through the name t: the object it is bound to
\* becomes o, the heap h
Write(t, o, h, op, fs) ==
    /\ assigned.writes < MaxWrites
    /\ IsSome(Obj(t))
    /\ heap' = h
    /\ IF t = "params"
       THEN params' = Some(o) /\ UNCHANGED duplicate
       ELSE duplicate' = Some(o) /\ UNCHANGED params
    /\ assigned' = [fields |-> IF t = "params" THEN assigned.fields \cup fs
                               ELSE assigned.fields,
                    writes |-> assigned.writes + 1]
    /\ last_op' = [op |-> op, target |-> t, out |-> <<>>]
    /\ UNCHANGED resolution
    /\ UNCHANGED clientVars

\* p.<field> = value (or the keyword of the constructor), the value no list
AssignScalar ==
    \E t \in Targets, f \in FieldNames :
        /\ IsSome(Obj(t))
        /\ duplicate = None \/ f \in RebindFields
        /\ \E v \in ScalarValues(f) :
              Write(t, [Get(Obj(t)) EXCEPT ![f] = Some(v)], heap, "assign", {f})

\* p.formats = [...], a new list
AssignFormats ==
    \E t \in Targets, l \in FormatLists :
        /\ IsSome(Obj(t))
        /\ Write(t, [Get(Obj(t)) EXCEPT !["formats"] = Some(RefVal(Len(heap) + 1))],
                 Append(heap, ListObj(l)), "assign", {"formats"})

\* the heap with the dicts of a new list of model assignments and then the
\* list itself, which is its last object
WithModels(h, l) ==
    LET hd == h \o l
    IN Append(hd, ListObj([k \in 1..Len(l) |-> RefVal(Len(h) + k)]))

\* p._models = [...], a new list of new dicts
AssignModels ==
    \E t \in Targets, l \in ModelLists :
        /\ IsSome(Obj(t))
        /\ LET h == WithModels(heap, l) IN
           Write(t, [Get(Obj(t)) EXCEPT !["_models"] = Some(RefVal(Len(h)))],
                 h, "assign", {"_models"})

\* p.formats.append(...)
AppendFormat ==
    \E t \in Targets :
        /\ IsSome(Obj(t))
        /\ IsSome(Get(Obj(t))["formats"])
        /\ LET a == Get(Get(Obj(t))["formats"]).i IN
           Write(t, Get(Obj(t)),
                 [heap EXCEPT ![a].items = Append(@, AppendedFormat)], "mutate", {})

\* p._models.append({...})
AppendModel ==
    \E t \in Targets :
        /\ IsSome(Obj(t))
        /\ IsSome(Get(Obj(t))["_models"])
        /\ LET a == Get(Get(Obj(t))["_models"]).i
               h == Append(heap, AppendedModel)
           IN Write(t, Get(Obj(t)),
                    [h EXCEPT ![a].items = Append(@, RefVal(Len(h)))], "mutate", {})

\* p._models[0]["modelId"] = ...
ChangeModelEntry ==
    \E t \in Targets :
        /\ IsSome(Obj(t))
        /\ IsTruthy(Get(Obj(t))["_models"], heap)
        /\ LET a == heap[Get(Get(Obj(t))["_models"]).i].items[1].i IN
           Write(t, Get(Obj(t)),
                 [heap EXCEPT ![a].modelId = ChangedModelId], "mutate", {})

\* duplicate = params.copy()
Copy ==
    /\ IsSome(params)
    /\ duplicate = None
    /\ LET c == params_copy(Get(params), heap) IN
       /\ duplicate' = Some(c.obj)
       /\ heap' = c.heap
    /\ last_op' = [op |-> "copy", target |-> "params", out |-> <<>>]
    /\ UNCHANGED <<resolution, params, assigned>>
    /\ UNCHANGED clientVars

\* start_multi_person_job(rid_mp_detection, models, params): the copy it
\* makes, the models it puts in it, and the parameters _process_video sends
StartMultiPersonParams ==
    /\ IsSome(params)
    /\ duplicate = None
    /\ \E l \in ModelLists :
          LET c == params_copy(Get(params), heap)
              h == WithModels(c.heap, l)
              p == [c.obj EXCEPT !["_models"] = Some(RefVal(Len(h)))]
          IN /\ duplicate' = Some(p)
             /\ heap' = h
             /\ last_op' = [op |-> "start_multi_person_job", target |-> "params",
                            out |-> to_params_list(p, h)]
    /\ UNCHANGED <<resolution, params, assigned>>
    /\ UNCHANGED clientVars

\* p.to_params_list()
Encode ==
    \E t \in Targets :
        /\ IsSome(Obj(t))
        /\ last_op' = [op |-> "to_params_list", target |-> t,
                       out |-> to_params_list(Get(Obj(t)), heap)]
        /\ UNCHANGED <<resolution, heap, params, duplicate, assigned>>
        /\ UNCHANGED clientVars

ParamsNext ==
    \/ AssignScalar \/ AssignFormats \/ AssignModels
    \/ AppendFormat \/ AppendModel \/ ChangeModelEntry
    \/ Copy \/ StartMultiPersonParams \/ Encode

ParamsSpec == ParamsInit /\ [][ParamsNext]_vars

\* to_params_list has just been called on the caller's own object
Encoded == last_op.op = "to_params_list" /\ last_op.target = "params"

\* the keys in the order the specification lists them, and as the code
\* writes them
ClaimedKeys ==
    <<"config", "formats", "model", "models", "sim", "trackFace", "trackHand",
      "footLockingMode", "videoSpeedMultiplier", "poseFilteringStrength",
      "upperBodyOnly", "rootAtOrigin", "trim", "crop", "render.sbs",
      "render.bgColor", "render.backdrop", "render.shadow",
      "render.includeAudio", "render.camMode", "pipeline">>
EmittedKeys == [ClaimedKeys EXCEPT ![20] = "render.CamMode"]

\* the field behind each key, in key order
KeyFields ==
    <<"config", "formats", "model_id", "_models", "sim", "track_face",
      "track_hand", "foot_locking_mode", "video_speed_multiplier",
      "pose_filtering_strength", "upper_body_only", "root_at_origin", "trim",
      "crop", "render_sbs", "render_bg_color", "render_backdrop",
      "render_shadow", "render_include_audio", "render_cam_mode", "_pipeline">>

\* the text a value is written as after "key="
TextOf(p, h, f) ==
    LET x == Get(p[f]) IN
    CASE x.t = "ref" /\ f = "formats" -> FormatsText(x, h)
      [] x.t = "ref" /\ f = "_models" -> JsonOfModels(x, h)
      [] x.t = "tuple" -> TupleText(x)
      [] x.t = "bool" -> IF x.i = 1 THEN "true" ELSE "false"
      [] OTHER -> PyStr(x)

\* the place in keys of the key of an entry, 0 when it has none of them: the
\* entry is read back as "<key>=<text of the value of the key's field>"
KeyRank(entry, keys, p, h) ==
    LET K == {k \in 1..Len(keys) :
                /\ IsSome(p[KeyFields[k]])
                /\ entry = keys[k] \o "=" \o TextOf(p, h, KeyFields[k])}
    IN IF K = {} THEN 0 ELSE CHOOSE k \in K : TRUE

\* the places of the keys of the entries of out
Ranks(out, keys, p, h) == [i \in 1..Len(out) |-> KeyRank(out[i], keys, p, h)]

\* the keys are among the known ones, in their order, each at most once
InKeyOrder(r) ==
    /\ \A i \in 1..Len(r) : r[i] # 0
    /\ \A i, j \in 1..Len(r) : i < j => r[i] < r[j]

\* there is an entry for the k-th key
HasEntry(r, k) == \E i \in 1..Len(r) : r[i] = k

\* C23: the keys of the strings to_params_list returns appear in the fixed
\* order config, formats, model, models, sim, trackFace, trackHand,
\* footLockingMode, videoSpeedMultiplier, poseFilteringStrength,
\* upperBodyOnly, rootAtOrigin, trim, crop, render.sbs, render.bgColor,
\* render.backdrop, render.shadow, render.includeAudio, render.camMode,
\* pipeline, each at most once and with exactly these names, and a field
\* left unset contributes no entry.
C23_KeysInClaimedOrder ==
    Encoded =>
        LET r == Ranks(last_op.out, ClaimedKeys, Get(params), heap) IN
        /\ InKeyOrder(r)
        /\ \A k \in 1..Len(KeyFields) :
              KeyFields[k] \notin assigned.fields => ~HasEntry(r, k)

\* C23 as the code has it: the same order with the key render.CamMode in the
\* place of render.camMode; a field that is None contributes no entry, and
\* config, when never set, contributes its default "config=configDefault".
C23_KeysInEmittedOrder ==
    Encoded =>
        LET r == Ranks(last_op.out, EmittedKeys, Get(params), heap) IN
        /\ InKeyOrder(r)
        /\ \A k \in 1..Len(KeyFields) :
              ~IsSome(Get(params)[KeyFields[k]]) => ~HasEntry(r, k)
        /\ "config" \notin assigned.fields =>
              /\ Len(last_op.out) >= 1
              /\ last_op.out[1] = "config=configDefault"

C23_Witness ==
    /\ Encoded
    /\ last_op.out = <<"config=configDefault", "formats=bvh,fbx", "render.CamMode=2">>

\* the value is an empty text, tuple or list
IsEmptyValue(x, h) ==
    \/ x.t = "str" /\ x.s = ""
    \/ x.t = "tuple" /\ x.l = <<>>
    \/ x.t = "ref" /\ h[x.i].items = <<>>

\* the fields to_params_list tests with `if self.<field>:`; the others it
\* tests with `is not None`
TruthTested ==
    {"config", "formats", "model_id", "_models", "foot_locking_mode", "trim",
     "crop", "render_bg_color", "render_backdrop", "_pipeline"}

\* C24: a field is emitted iff it was explicitly set: a field never set
\* produces no entry (no default in its place), and a field explicitly set
\* to a falsy value, an empty list in particular, still produces an entry.
C24_EmittedIffExplicitlySet ==
    Encoded =>
        LET r == Ranks(last_op.out, EmittedKeys, Get(params), heap) IN
        \A k \in 1..Len(KeyFields) :
            HasEntry(r, k) <=> KeyFields[k] \in assigned.fields

\* C24 as the code has it: a field never set produces no entry, except
\* config, whose default is emitted; a field set to a value produces an entry
\* unless it is one of the fields tested for truth (config, formats, model_id,
\* _models, foot_locking_mode, trim, crop, render_bg_color, render_backdrop,
\* _pipeline) and the value is empty; 0, 0.0 and False in the other fields
\* are emitted.
C24_EmittedIffSetAndNotEmpty ==
    Encoded =>
        LET r == Ranks(last_op.out, EmittedKeys, Get(params), heap) IN
        \A k \in 1..Len(KeyFields) :
            LET f == KeyFields[k]
                v == Get(params)[f]
            IN HasEntry(r, k)
                 <=> IF f \in assigned.fields
                     THEN ~(f \in TruthTested /\ IsEmptyValue(Get(v), heap))
                     ELSE f = "config"

C24_Witness ==
    /\ Encoded
    /\ {"formats", "sim"} \subseteq assigned.fields
    /\ heap[Get(Get(params)["formats"]).i].items = <<>>
    /\ last_op.out = <<"config=configDefault", "sim=0">>

\* what an object holds, the contents of its lists and of their entries
\* included, and what it encodes to
View(o, h) ==
    <<[f \in FieldNames |->
         IF IsSome(o[f]) /\ Get(o[f]).t = "ref"
         THEN <<[k \in 1..Len(h[Get(o[f]).i].items) |->
                   LET x == h[Get(o[f]).i].items[k] IN
                   IF x.t = "ref" THEN h[x.i] ELSE ListObj(<<x>>)]>>
         ELSE o[f]],
      to_params_list(o, h)>>

\* C25: ProcessParams.copy() returns an object that shares no mutable
\* storage with the original: no assignment to the copy and no in-place
\* mutation of its formats list, of its model-assignment list or of an entry
\* of that list changes the original's fields or its to_params_list output,
\* and the other way round; start_multi_person_job, which works on a copy,
\* leaves the caller's object unchanged.
C25_CopySharesNoStorage ==
    [][/\ (IsSome(duplicate) /\ last_op'.op \in {"assign", "mutate"}) =>
            /\ last_op'.target = "duplicate" =>
                  View(Get(params'), heap') = View(Get(params), heap)
            /\ last_op'.target = "params" =>
                  View(Get(duplicate'), heap') = View(Get(duplicate), heap)
       /\ last_op'.op = "start_multi_person_job" =>
            View(Get(params'), heap') = View(Get(params), heap)]_vars

----------------------------------------------------------------------------
(* Further properties of the poll loop *)

\* the step appends exactly one default message of the poller
OneMessagePrinted ==
    /\ Len(events') = Len(events) + 1
    /\ SubSeq(events', 1, Len(events)) = events
    /\ events'[Len(events')].kind = "print"

\* C26: when a terminal status is fetched and no result callback is
\* registered, the poller emits exactly one default message and stops, for
\* Success and Failure alike and on both clients; when a Progress status is
\* fetched and no progress callback is registered, it emits one default
\* informational message.
C26_DefaultMessages ==
    [][/\ (/\ pollPc = "terminal"
           /\ IsTerminal(job_status)
           /\ ~call.result_callback
           /\ pollPc' # pollPc) =>
              (pollPc' = "done" /\ OneMessagePrinted)
       /\ (/\ pollPc = "progress"
           /\ job_status.status = "PROGRESS"
           /\ ~call.progress_callback
           /\ pollPc' # pollPc) =>
              (pollPc' = "terminal" /\ OneMessagePrinted)]_vars

\* the replies of the service to a status request, those of StatusResponses
\* and: a Starting status, a status text the Status enum does not have, and a
\* reply with a count but no "status" key
CycleResponses(r) ==
    StatusResponses(r) \cup
    { Response(1, <<StatusEntry(r, "STARTING", None, None)>>),
      Response(1, <<StatusEntry(r, "QUEUED", None, Some(2))>>),
      Response(1, <<>>) }

\* blocking calls of start_new_job, with and without callbacks and timeout
CycleCalls == {c \in Calls : c.op = "start_new_job" /\ c.blocking}

CycleInit == Init /\ call \in CycleCalls

\* how many status requests of the call are followed
MaxCycleFetches == 2

CycleFetch == FetchFrom(CycleResponses(Get(pollRid)), MaxCycleFetches)

CycleFetchFails == FetchFails(MaxCycleFetches)

CycleNext == CallNext \/ PollStart \/ CycleFetch \/ CycleFetchFails \/ PollProgress
               \/ PollTerminal \/ PollTimeout \/ PollSleep

\* the poll loop of one blocking call against every kind of reply
CycleSpec == CycleInit /\ [][CycleNext]_vars

\* the last reply of the service has count 0 or no status entries
EmptyReply ==
    /\ IsSome(reply)
    /\ Get(reply).count = 0 \/ Len(Get(reply).status) = 0

\* the poller is inside the cycle of its last fetch
InCycle == pollPc \in {"progress", "terminal", "timeout", "sleep"}

C28_TerminalBeforeTimeout ==
    /\ [](pollErr.type = "TimeoutError" => ~IsTerminal(job_status))
    /\ [][(pollPc = "terminal" /\ IsTerminal(job_status) /\ pollPc' # pollPc) =>
            /\ pollPc' \in {"done", "raised"}
            /\ pollPc' = "raised" => pollErr' \in {CallbackError, AttributeError}
            /\ call.result_callback =>
                  /\ ResultCount' = ResultCount + 1
                  /\ events'[Len(events')] = ResultEventOf(Get(pollRid), job_status)]_vars

\* a terminal status dispatched after the timeout had passed
C28_Witness ==
    /\ pollPc = "done"
    /\ IsTerminal(job_status)
    /\ call.timeout > 0
    /\ now - start_time > call.timeout
    /\ ResultCount = 1

\* C29: with timeout None or 0 the poller never raises TimeoutError; it
\* stops only when a Success or Failure has been fetched or a fetch or a
\* callback raised, and it does stop on a fetched Success or Failure;
\* otherwise every cycle ends in a sleep of one poll interval and another
\* fetch.
C29_NoTimeoutPollsOn ==
    /\ [](call.timeout = 0 =>
            /\ pollErr.type # "TimeoutError"
            /\ Stopped => (IsTerminal(job_status) \/ pollErr \in {APIError, CallbackError}))
    /\ [][(call.timeout = 0 /\ pollPc' # pollPc) =>
            /\ (pollPc = "terminal" /\ IsTerminal(job_status)) => Stopped'
            /\ (pollPc = "terminal" /\ ~IsTerminal(job_status)) => pollPc' = "timeout"
            /\ pollPc = "timeout" => pollPc' = "sleep"
            /\ pollPc = "sleep" =>
                  (pollPc' = "fetch" /\ now' = now + call.poll_interval)]_vars

\* no timeout, every request of the bound made, and the poller about to
\* make the next one
C29_Witness ==
    /\ call.timeout = 0
    /\ fetches = MaxCycleFetches
    /\ pollPc = "fetch"
    /\ now - start_time >= MaxCycleFetches * call.poll_interval
    /\ \A i \in 1..Len(history) : ~IsTerminal(history[i])

\* the status text of the last reply is none of Progress, Success, Failure
OtherStatusReply ==
    /\ IsSome(reply)
    /\ Get(reply).count > 0
    /\ Len(Get(reply).status) > 0
    /\ Get(reply).status[1].status \notin {"PROGRESS", "SUCCESS", "FAILURE"}

\* C30: a fetched status that is neither Progress, Success nor Failure
\* (Retry, Starting, or a text the enum does not have, which becomes no
\* status) triggers no progress callback, no result callback and no default
\* message in that cycle: the poller only makes the timeout check, sleeps
\* one poll interval and fetches again.
C30_OtherStatusOnlyWaits ==
    /\ []((OtherStatusReply /\ Get(reply).status[1].status \notin Statuses) =>
             job_status.status = StatusNone)
    /\ [][(OtherStatusReply /\ InCycle /\ pollPc' # pollPc) =>
            /\ events' = events
            /\ pollPc = "progress" =>
                  (pollPc' = "terminal" /\ now' = now /\ pollErr' = pollErr)
            /\ pollPc = "terminal" =>
                  (pollPc' = "timeout" /\ now' = now /\ pollErr' = pollErr)
            /\ pollPc = "timeout" =>
                  \/ pollPc' = "sleep" /\ pollErr' = pollErr
                  \/ pollPc' = "raised" /\ pollErr' = TimeoutError(Get(pollRid))
            /\ pollPc = "sleep" =>
                  (pollPc' = "fetch" /\ now' = now + call.poll_interval)]_vars

\* an unrecognised status fetched by a call with both callbacks, the cycle
\* over and nothing dispatched
C30_Witness ==
    /\ OtherStatusReply
    /\ Get(reply).status[1].status = "QUEUED"
    /\ job_status.status = StatusNone
    /\ call.progress_callback /\ call.result_callback
    /\ pollPc = "sleep"
    /\ events = <<>>

====
